---- MODULE Spec2Model ----
(***************************************************************************)
(* tg-img: an HTTP relay that uploads files to the Telegram bot API and    *)
(* serves them back by file id, logging accesses and gating delivery on a  *)
(* rating cached in a D1 store.                                            *)
(*                                                                         *)
(* Handlers modelled (one request in flight at a time; the tasks a handler *)
(* hands to ctx.waitUntil run on after its response and interleave with    *)
(* the following requests):                                                *)
(*   "cfile_GET"      src/unnamed/part_000:21   GET, current variant       *)
(*   "cfile_old_GET"  src/unnamed/part_000:283  GET, older variant         *)
(*   "cfile_POST"     src/unnamed/part_000:99   POST                       *)
(*   "upload_POST"    src/unnamed/part_001:147  POST                       *)
(*   "tgchannel_POST" src/src/app/api/tgchannel/route.js:13  POST          *)
(* Strings that the code builds or tests by prefix are sequences of        *)
(* tokens: `${origin}/admin` is <<"origin", "/admin">>.                    *)
(***************************************************************************)
EXTENDS Integers, Sequences, FiniteSets, Bags

\* ------------------------------------------------------------------ bounds
MaxReqs == 2       \* requests handled in one behaviour
MaxPhotos == 3     \* size entries in a sendPhoto reply
MaxSize == 3       \* file_size values range over 1..MaxSize

\* --------------------------------------------------------- program constants
BlockedRating == 3       \* the rating that blocks delivery
RatingFailed == -1       \* getRating: lookup failed
RatingNone == 0          \* getRating: no rating service configured
InitialTotal == 1        \* imginfo.total of a fresh row

\* ------------------------------------------------------------ value domains
Absent == <<>>           \* undefined / null / "" : every falsy string the code tests
NoSize == 0              \* a PhotoSize without file_size (the field is optional)
UpstreamStatuses == {404}  \* statuses of a failed download from the backend

GetHandlers == {"cfile_GET", "cfile_old_GET"}
PostHandlers == {"cfile_POST", "upload_POST", "tgchannel_POST"}

PhotoIds == [i \in 1..MaxPhotos |-> <<"photo", i>>]
MediaId == <<"media", 1>>
\* the identifiers requests ask for: a photo's, a document's
FileIds == {<<"photo", 1>>, MediaId}
UniqueId(id) == <<"unique">> \o id

Referers ==
  { <<"origin", "/admin">>, <<"origin", "/admin", "/users">>, <<"origin", "/list">>,
    <<"origin", "/">>, <<"elsewhere", "/admin">>, <<>> }
MimeTypes ==
  { <<"image/", "png">>, <<"video/", "mp4">>, <<"audio/", "mpeg">>,
    <<"application/pdf">>, <<"text/", "plain">>, <<>> }
\* formData.get('file'): null, a string, or a File with a MIME type
FormFiles == {[kind |-> "missing", type |-> <<>>], [kind |-> "string", type |-> <<>>]}
             \cup {[kind |-> "file", type |-> t] : t \in MimeTypes}
\* where the client's IP can be read from: a forwarding header, request.socket, nowhere
IpSources == {"header", "socket", "none"}
\* rating_index values the moderation service answers with
RatingIndexes == {1, BlockedRating}

\* String.prototype.startsWith, on token sequences
StartsWith(s, prefix) ==
  /\ Len(s) >= Len(prefix)
  /\ \A i \in 1..Len(prefix) : s[i] = prefix[i]

\* ------------------------------------------------ the messaging backend's replies
NoMedia == [file_id |-> Absent, file_unique_id |-> Absent, file_name |-> Absent, file_size |-> NoSize]
PhotoSize(i, size) ==
  [file_id |-> PhotoIds[i], file_unique_id |-> UniqueId(PhotoIds[i]),
   file_name |-> Absent, file_size |-> size]
\* every list of 0..MaxPhotos size entries; entry i carries PhotoIds[i]
PhotoLists ==
  UNION { { [i \in 1..n |-> PhotoSize(i, sizes[i])] : sizes \in [1..n -> 0..MaxSize] }
          : n \in 0..MaxPhotos }
Media == { [file_id |-> MediaId, file_unique_id |-> UniqueId(MediaId),
            file_name |-> n, file_size |-> 1] : n \in {Absent, <<"a.bin">>} }
NoResult == [hasPhoto |-> FALSE, photo |-> <<>>, document |-> NoMedia, video |-> NoMedia, audio |-> NoMedia]
\* the result object the backend returns for a message sent through `endpoint`
ResultsFor(endpoint) ==
  {NoResult} \cup
  CASE endpoint = "sendPhoto" -> {[NoResult EXCEPT !.hasPhoto = TRUE, !.photo = p] : p \in PhotoLists}
    [] endpoint = "sendVideo" -> {[NoResult EXCEPT !.video = m] : m \in Media}
    [] endpoint = "sendAudio" -> {[NoResult EXCEPT !.audio = m] : m \in Media}
    [] OTHER -> {[NoResult EXCEPT !.document = m] : m \in Media}
\* outcome of `await fetch(send...)` followed by `await response.json()`:
\* thrown fetch, unparsable body, {ok:false}, {ok:true, result}
NoReply == [fetch |-> "none", httpOk |-> FALSE, json |-> FALSE, ok |-> FALSE, result |-> NoResult]
Replies(results) ==
  {[NoReply EXCEPT !.fetch = "throw"]}
  \cup {[NoReply EXCEPT !.fetch = "done", !.httpOk = h] : h \in BOOLEAN}
  \cup {[NoReply EXCEPT !.fetch = "done", !.httpOk = h, !.json = TRUE] : h \in BOOLEAN}
  \cup {[NoReply EXCEPT !.fetch = "done", !.httpOk = TRUE, !.json = TRUE, !.ok = TRUE, !.result = r]
        : r \in results}
\* the replies the handlers are run on: photo lists of at most one entry (what a handler
\* does with a reply depends on the list only through the extracted entry; extraction
\* itself is run on every list of PhotoLists in SpecExtract)
Endpoints == {"sendPhoto", "sendVideo", "sendAudio", "sendDocument"}
HandlerReplies ==
  [e \in Endpoints |-> Replies({r \in ResultsFor(e) : Len(r.photo) <= 1})]
SendReplies(endpoint) == HandlerReplies[endpoint]

\* what the handlers test of a reply: how the fetch ended, response.ok, whether the body
\* parsed, and the body's ok flag (the result object is kept by extraction alone)
Flags(reply) == [reply EXCEPT !.result = NoResult]

\* --------------------------------------------------------------- pure functions
getTelegramEndpoint(fileType) ==
  IF StartsWith(fileType, <<"image/">>) THEN "sendPhoto"
  ELSE IF StartsWith(fileType, <<"video/">>) THEN "sendVideo"
  ELSE IF StartsWith(fileType, <<"audio/">>) THEN "sendAudio"
  ELSE "sendDocument"

\* route.js: first key of fileTypeMap the type starts with, else defaultType
fileTypeMapEndpoint(fileType) ==
  IF StartsWith(fileType, <<"image/">>) THEN "sendPhoto"
  ELSE IF StartsWith(fileType, <<"video/">>) THEN "sendVideo"
  ELSE IF StartsWith(fileType, <<"audio/">>) THEN "sendAudio"
  ELSE IF StartsWith(fileType, <<"application/pdf">>) THEN "sendDocument"
  ELSE "sendDocument"

\* JS `a > b` on file_size values: a comparison with undefined is false
Greater(a, b) == a # NoSize /\ b # NoSize /\ a > b

\* faulty reducers: `<` keeps the smaller entry, `>=` keeps the first of a tie
largerPhoto_less(prev, current) ==
  IF prev.file_size # NoSize /\ current.file_size # NoSize /\ prev.file_size < current.file_size
  THEN prev ELSE current
largerPhoto_geq(prev, current) ==
  IF prev.file_size # NoSize /\ current.file_size # NoSize /\ prev.file_size >= current.file_size
  THEN prev ELSE current

\* the reducer (prev, current) => (prev.file_size > current.file_size) ? prev : current
largerPhoto(prev, current) ==
  IF Greater(prev.file_size, current.file_size) THEN prev ELSE current

RECURSIVE reduce(_, _, _)
\* Array.prototype.reduce without an initial value, from index i with accumulator prev
reduce(photo, i, prev) ==
  IF i > Len(photo) THEN prev ELSE reduce(photo, i + 1, largerPhoto(prev, photo[i]))

largestPhoto(photo) == reduce(photo, 2, photo[1])

\* what extraction hands back: a value, null, or a thrown TypeError
NullData == [tag |-> "null", file_id |-> Absent, file_name |-> Absent]
ThrownData == [tag |-> "throw", file_id |-> Absent, file_name |-> Absent]
FileData(id, name) == [tag |-> "data", file_id |-> id, file_name |-> name]

\* JS `a || b` on names
OrElse(a, b) == IF a # Absent THEN a ELSE b

extractFileData(responseData) ==
  IF ~responseData.ok THEN NullData
  ELSE LET result == responseData.result IN
    IF result.hasPhoto
    THEN IF Len(result.photo) = 0 THEN ThrownData   \* reduce of an empty array throws
         ELSE LET largest == largestPhoto(result.photo)
              IN FileData(largest.file_id, largest.file_unique_id)
    ELSE LET file == IF result.document # NoMedia THEN result.document
                     ELSE IF result.video # NoMedia THEN result.video
                     ELSE result.audio
         IN IF file # NoMedia
            THEN FileData(file.file_id, OrElse(file.file_name, file.file_unique_id))
            ELSE NullData

getFileDetails(file) == FileData(file.file_id, OrElse(file.file_name, file.file_unique_id))

\* route.js getFile: the whole body is in a try that turns a throw into null
getFile(response) ==
  IF ~response.ok THEN NullData
  ELSE IF response.result.hasPhoto
       THEN IF Len(response.result.photo) = 0 THEN NullData
            ELSE getFileDetails(largestPhoto(response.result.photo))
  ELSE IF response.result.video # NoMedia THEN getFileDetails(response.result.video)
  ELSE IF response.result.document # NoMedia THEN getFileDetails(response.result.document)
  ELSE NullData

\* ----------------------------------------------------------------------- state
VARIABLES
  env,        \* the bindings: IMG (the D1 store), RATINGAPI, ModerateContentApiKey
  imginfo,    \* table imginfo: rows [url, rating, total], in insertion order
              \* (the columns referer, ip and time are written and never read)
  tgimglog,   \* table tgimglog: rows [url], in insertion order
  tasks,      \* promises still running: handed to ctx.waitUntil, or awaited by the handler
  req,        \* the request being handled (or the last one handled)
  nreq,       \* requests received so far
  hist        \* history, kept for the properties: one [event, url] per rating SELECT that
              \* returned a record ("found") and per UPDATE of total that failed ("failed")

vars == <<env, imginfo, tgimglog, tasks, req, nreq, hist>>

Origin == <<"origin">>
BlockedLocation == Origin \o <<"/img/blocked.png">>

NoResp == [status |-> 0, body |-> "none", location |-> Absent, url |-> Absent,
           name |-> Absent, raw |-> NoReply]
\* a JSON error body {message, ...}
ErrorResp(status) == [NoResp EXCEPT !.status = status, !.body = "error"]
\* the error body that carries the backend's reply as telegram_response
BackendErrorResp(status, reply) ==
  [NoResp EXCEPT !.status = status, !.body = "error", !.raw = reply]
\* {url: `${origin}/api/cfile/${file_id}`, code: 200, name}
UploadResp(fileData) ==
  [NoResp EXCEPT !.status = 200, !.body = "upload",
                 !.url = Origin \o <<"/api/cfile/">> \o fileData.file_id,
                 !.name = fileData.file_name]
BytesResp == [NoResp EXCEPT !.status = 200, !.body = "bytes"]
RedirectResp == [NoResp EXCEPT !.status = 302, !.body = "redirect", !.location = BlockedLocation]

NoFile == "unread"
IdleReq ==
  [handler |-> "none", pc |-> "idle", name |-> Absent, referer |-> Absent,
   file |-> NoFile, endpoint |-> "none", tg |-> NoReply, fileData |-> NullData,
   file_path |-> "none", fetched |-> "none", trusted |-> FALSE,
   lookup |-> "none", ratingInfo |-> 0,
   resp |-> NoResp, calls |-> <<>>]
NewReq(h) == [IdleReq EXCEPT !.handler = h, !.pc = "start"]

\* `return new Response(...)`: the handler is over
Respond(r, resp) == [r EXCEPT !.pc = "done", !.resp = resp, !.calls = Append(@, "respond")]
\* an exception leaves the handler: the platform, not the handler, answers
Crash(r) == [r EXCEPT !.pc = "crashed"]
Call(r, name) == [r EXCEPT !.calls = Append(@, name)]

NoTask ==
  [kind |-> "none", handler |-> "none", awaited |-> FALSE, pc |-> "none",
   file_id |-> Absent, url |-> Absent, rating |-> 0]
\* the bookkeeping of an upload, at its first await: the getFile call is in flight
BookkeepingTask(h, file_id, awaited) ==
  [NoTask EXCEPT !.kind = "bookkeeping", !.handler = h, !.awaited = awaited,
                 !.pc = "getFile", !.file_id = file_id]

\* a promise starts (ctx.waitUntil(p), or `await p`), ends, or moves to its next await
Spawn(t) == tasks (+) SetToBag({t})
Settle(t) == tasks (-) SetToBag({t})
Advance(t, next) == (tasks (-) SetToBag({t})) (+) SetToBag({next})
Pending == BagToSet(tasks)

Init ==
  /\ env \in [IMG : BOOLEAN, RATINGAPI : BOOLEAN, ModerateContentApiKey : BOOLEAN]
  /\ imginfo = <<>>
  /\ tgimglog = <<>>
  /\ tasks = EmptyBag
  /\ req = IdleReq
  /\ nreq = 0
  /\ hist = EmptyBag

\* a request arrives once the previous handler has returned (or thrown)
CanStart == req.pc \in {"idle", "done", "crashed"} /\ nreq < MaxReqs

\* ------------------------------------------------------- upload: POST handlers
\* part_000:100-124 and part_001:148-179, up to `await fetch(telegramApiUrl, ...)`
POST_Receive(h) ==
  /\ CanStart
  /\ h \in {"cfile_POST", "upload_POST"}
  /\ \E formOk \in BOOLEAN, file \in FormFiles :
       req' = IF ~formOk
              THEN Respond(NewReq(h), ErrorResp(500))     \* request.formData() rejects
              ELSE IF file.kind # "file"                  \* !file || !(file instanceof File)
              THEN Respond([NewReq(h) EXCEPT !.file = file.kind], ErrorResp(400))
              ELSE Call([NewReq(h) EXCEPT !.file = file.kind, !.pc = "send",
                                          !.endpoint = getTelegramEndpoint(file.type)],
                        "sendFile")
  /\ nreq' = nreq + 1
  /\ UNCHANGED <<env, imginfo, tgimglog, tasks, hist>>

\* part_000:124-169 and part_001:176-230, from the backend's reply to the response
POST_SendReply(h) ==
  /\ req.pc = "send" /\ req.handler = h
  /\ h \in {"cfile_POST", "upload_POST"}
  /\ \E reply \in SendReplies(req.endpoint) :
       LET r == [req EXCEPT !.tg = Flags(reply)] IN
       IF reply.fetch = "throw" \/ ~reply.json
       THEN req' = Respond(r, ErrorResp(500)) /\ tasks' = tasks
       ELSE IF ~reply.httpOk \/ ~reply.ok
       THEN req' = Respond(r, BackendErrorResp(502, reply)) /\ tasks' = tasks
       ELSE LET fileData == extractFileData(reply)
                r2 == Call([r EXCEPT !.fileData = fileData], "extract") IN
            IF fileData.tag # "data"
            THEN req' = Respond(r2, ErrorResp(500)) /\ tasks' = tasks
            ELSE IF env.IMG
            \* the async function given to waitUntil runs up to its first await
            THEN /\ req' = Respond(Call(r2, "getFile"), UploadResp(fileData))
                 /\ tasks' = Spawn(BookkeepingTask(h, fileData.file_id, FALSE))
            ELSE req' = Respond(r2, UploadResp(fileData)) /\ tasks' = tasks
  /\ UNCHANGED <<env, imginfo, tgimglog, nreq, hist>>

\* ------------------------------------------------- upload: tgchannel/route.js POST
\* route.js:14-62: everything before the handler's try block
POST_tgchannel_Receive ==
  /\ CanStart
  /\ \E ip \in IpSources, formOk \in BOOLEAN, file \in FormFiles :
       LET h == "tgchannel_POST" IN
       req' = IF ip = "none"         \* request.socket is undefined: .remoteAddress throws
              THEN Crash(NewReq(h))
              ELSE IF ~formOk        \* request.formData() rejects
              THEN Crash(NewReq(h))
              ELSE IF file.kind # "file"   \* null.type, or undefined.startsWith
              THEN Crash([NewReq(h) EXCEPT !.file = file.kind])
              ELSE Call([NewReq(h) EXCEPT !.file = file.kind, !.pc = "send",
                                          !.endpoint = fileTypeMapEndpoint(file.type)],
                        "sendFile")
  /\ nreq' = nreq + 1
  /\ UNCHANGED <<env, imginfo, tgimglog, tasks, hist>>

\* route.js:63-105 and 142-153: the backend's reply, up to `await getRating(...)`
POST_tgchannel_SendReply ==
  /\ req.pc = "send" /\ req.handler = "tgchannel_POST"
  /\ \E reply \in SendReplies(req.endpoint) :
       LET r == [req EXCEPT !.tg = Flags(reply)] IN
       IF reply.fetch = "throw" \/ ~reply.json
       THEN req' = Respond(r, ErrorResp(500)) /\ tasks' = tasks
       ELSE LET fileData == getFile(reply)
                r2 == Call([r EXCEPT !.fileData = fileData], "extract") IN
            IF fileData.tag # "data"
            THEN req' = Respond(r2, BackendErrorResp(500, Flags(reply))) /\ tasks' = tasks
            ELSE IF ~env.IMG
            THEN req' = Respond(r2, UploadResp(fileData)) /\ tasks' = tasks
            ELSE /\ req' = Call([r2 EXCEPT !.pc = "bookkeeping"], "getFile")
                 /\ tasks' = Spawn(BookkeepingTask("tgchannel_POST", fileData.file_id, TRUE))
  /\ UNCHANGED <<env, imginfo, tgimglog, nreq, hist>>

\* ---------------------------------------------------- upload bookkeeping (rating)
\* outcomes of getFile: the fetch throws, {ok:false}, {ok:true} without file_path, a path
GetFileReplies == {"throw", "notok", "nopath", "path"}
\* outcomes of the rating service: the fetch or json() throws, or a JSON body with or
\* without rating_index
RatingReplies ==
  {[fetch |-> "throw", has |-> FALSE, rating_index |-> 0],
   [fetch |-> "done", has |-> FALSE, rating_index |-> 0]}
  \cup {[fetch |-> "done", has |-> TRUE, rating_index |-> i] : i \in RatingIndexes}

\* env.RATINGAPI || (env.ModerateContentApiKey ? ... : null)
ratingApi == env.RATINGAPI \/ env.ModerateContentApiKey

\* getRating / getRatingFromApi up to the rating fetch: [next, rating]
getRating(fileReply) ==
  IF fileReply # "path" THEN [next |-> "insert", rating |-> RatingFailed]   \* !filePath
  ELSE IF ~ratingApi THEN [next |-> "insert", rating |-> RatingNone]
  ELSE [next |-> "rating", rating |-> 0]

\* route.js getRating up to the rating fetch: the result of getFile_path is not tested
getRating_tgchannel(fileReply) ==
  IF ratingApi THEN [next |-> "rating", rating |-> 0]
  ELSE [next |-> "insert", rating |-> RatingNone]

\* data.rating_index ?? -1, and -1 from the catch block
ratingIndex(reply) ==
  IF reply.fetch = "throw" THEN RatingFailed
  ELSE IF reply.has THEN reply.rating_index ELSE RatingFailed

\* the url column the upload variant writes
imginfoUrl(h, file_id) ==
  IF h = "cfile_POST" THEN <<"/api/cfile/">> \o file_id ELSE <<"/cfile/">> \o file_id

\* the handler that awaits task t records the calls it issues
Awaiting(t, name) == IF t.awaited THEN Call(req, name) ELSE req

\* the getFile reply arrives in getRating
Bookkeeping_FileReply(t) ==
  /\ t.kind = "bookkeeping" /\ t.pc = "getFile"
  /\ \E fileReply \in GetFileReplies :
       LET step == IF t.handler = "tgchannel_POST" THEN getRating_tgchannel(fileReply)
                   ELSE getRating(fileReply)
       IN /\ tasks' = Advance(t, [t EXCEPT !.pc = step.next, !.rating = step.rating])
          /\ req' = Awaiting(t, IF step.next = "rating" THEN "rating_api" ELSE "imginfo_insert")
  /\ UNCHANGED <<env, imginfo, tgimglog, nreq, hist>>

\* the rating service's reply arrives in getRating
Bookkeeping_RatingReply(t) ==
  /\ t.kind = "bookkeeping" /\ t.pc = "rating"
  /\ \E reply \in RatingReplies :
       /\ tasks' = Advance(t, [t EXCEPT !.pc = "insert", !.rating = ratingIndex(reply)])
       /\ req' = Awaiting(t, "imginfo_insert")
  /\ UNCHANGED <<env, imginfo, tgimglog, nreq, hist>>

\* INSERT INTO imginfo (...) VALUES (?, ?, ?, ?, 1, ?) runs, or fails and is swallowed
insertImageData(t, storeOk) ==
  IF storeOk
  THEN Append(imginfo, [url |-> imginfoUrl(t.handler, t.file_id), rating |-> t.rating,
                        total |-> InitialTotal])
  ELSE imginfo

Bookkeeping_Insert(t) ==
  /\ t.kind = "bookkeeping" /\ t.pc = "insert"
  /\ \E storeOk \in BOOLEAN : imginfo' = insertImageData(t, storeOk)
  /\ tasks' = Settle(t)
  \* route.js:109-119: the awaiting handler answers now
  /\ req' = IF t.awaited THEN Respond(req, UploadResp(req.fileData)) ELSE req
  /\ UNCHANGED <<env, tgimglog, nreq, hist>>

\* ------------------------------------------------------ retrieval: GET handlers
\* outcomes of `await fetch(fileUrl)` and of reading the body: the fetch throws, a
\* non-2xx status, a 2xx whose body cannot be read to the end, a 2xx with the bytes
FetchReplies == {"throw", "notok", "badbody", "ok"}

\* faulty variant: the /list prefix is forgotten
isAdminReferer_adminOnly(referer) == StartsWith(referer, <<"origin", "/admin">>)

\* faulty variant: the origin of the Referer is not compared
isAdminReferer_anyOrigin(referer) ==
  Len(referer) >= 2 /\ referer[2] \in {"/admin", "/list"}

\* part_000:61
isAdminReferer(referer) ==
  \/ StartsWith(referer, Origin \o <<"/admin">>)
  \/ StartsWith(referer, Origin \o <<"/list">>)

\* part_000:318, the older variant's comparisons
isTrustedReferer_old(referer) ==
  \/ referer = Origin \o <<"/admin">>
  \/ referer = Origin \o <<"/list">>
  \/ referer = Origin \o <<"/">>

\* the url both tables are keyed by on retrieval
urlPath(h, name) ==
  IF h = "cfile_GET" THEN <<"/api/cfile/">> \o name ELSE <<"/cfile/">> \o name

LogTask(h, url, awaited) ==
  [NoTask EXCEPT !.kind = "log_insert", !.handler = h, !.awaited = awaited,
                 !.pc = "insert", !.url = url]
UpdateTask(h, url) ==
  [NoTask EXCEPT !.kind = "total_update", !.handler = h, !.pc = "update", !.url = url]

\* part_000:22-32 and 284-294, up to `await getFile...(env, name)`
GET_Receive(h) ==
  /\ CanStart
  /\ h \in GetHandlers
  /\ \E name \in FileIds, referer \in Referers :
       req' = Call([NewReq(h) EXCEPT !.name = name, !.referer = referer, !.pc = "getFile"],
                   "getFile")
  /\ nreq' = nreq + 1
  /\ UNCHANGED <<env, imginfo, tgimglog, tasks, hist>>

\* faulty variant: the error body is sent without a status, which defaults to 200
pathFailureStatus_default(h) == 200

\* status of the response when the path cannot be resolved: part_000:39 and :304
pathFailureStatus(h) == IF h = "cfile_GET" THEN 502 ELSE 500

\* part_000:185-199: the path, undefined when the answer has none, null on a failure
getFilePathFromTelegram(fileReply) ==
  IF fileReply = "path" THEN "path"
  ELSE IF fileReply = "nopath" THEN "undefined"
  ELSE "null"

\* part_000:386-408: the path, "error" on a failure or when the answer has none
getFile_path_old(fileReply) == IF fileReply = "path" THEN "path" ELSE "error"

\* the tests `!file_path` (part_000:34) and `file_path === "error"` (part_000:297)
pathFailed(h, file_path) ==
  IF h = "cfile_GET" THEN file_path \in {"null", "undefined"} ELSE file_path = "error"

\* getFilePathFromTelegram / getFile_path answer, then part_000:34-47 and 297-314
GET_FileReply(h) ==
  /\ req.pc = "getFile" /\ req.handler = h
  /\ \E fileReply \in GetFileReplies :
       LET file_path == IF h = "cfile_GET" THEN getFilePathFromTelegram(fileReply)
                        ELSE getFile_path_old(fileReply)
           r == [req EXCEPT !.file_path = fileReply] IN
       req' = IF pathFailed(h, file_path)
              THEN Respond(r, ErrorResp(pathFailureStatus(h)))
              ELSE IF file_path # "path"     \* file_path.split(...) throws, caught
              THEN Respond(r, ErrorResp(500))
              ELSE Call([r EXCEPT !.pc = "fetch"], "fetchBytes")
  /\ UNCHANGED <<env, imginfo, tgimglog, tasks, nreq, hist>>

\* part_000:47-76: the download's outcome, the trust decision, the log insert handed to
\* waitUntil and the rating SELECT
GET_cfile_FetchReply ==
  /\ req.pc = "fetch" /\ req.handler = "cfile_GET"
  /\ \E fetched \in FetchReplies, status \in UpstreamStatuses :
       LET trusted == isAdminReferer(req.referer) \/ ~env.IMG
           r0 == [req EXCEPT !.fetched = fetched]
           r == [r0 EXCEPT !.trusted = trusted]
           url == urlPath("cfile_GET", req.name) IN
       IF fetched = "throw"
       THEN req' = Respond(r0, ErrorResp(500)) /\ tasks' = tasks
       ELSE IF fetched = "notok"
       THEN req' = Respond(r0, ErrorResp(status)) /\ tasks' = tasks
       ELSE IF trusted      \* the body is streamed through, unread
       THEN req' = Respond(r, BytesResp) /\ tasks' = tasks
       ELSE IF fetched = "badbody"   \* await telegramResponse.arrayBuffer() throws
       THEN req' = Respond(r, ErrorResp(500)) /\ tasks' = tasks
       ELSE /\ req' = Call(Call([r EXCEPT !.pc = "select"], "log_insert"), "rating_select")
            /\ tasks' = Spawn(LogTask("cfile_GET", url, FALSE))
  /\ UNCHANGED <<env, imginfo, tgimglog, nreq, hist>>

\* part_000:316-328: the older variant reads the body first and awaits the log insert
GET_cfile_old_FetchReply ==
  /\ req.pc = "fetch" /\ req.handler = "cfile_old_GET"
  /\ \E fetched \in FetchReplies, status \in UpstreamStatuses :
       LET trusted == isTrustedReferer_old(req.referer) \/ ~env.IMG
           r0 == [req EXCEPT !.fetched = fetched]
           r == [r0 EXCEPT !.trusted = trusted]
           url == urlPath("cfile_old_GET", req.name) IN
       IF fetched = "throw"
       THEN req' = Respond(r0, ErrorResp(500)) /\ tasks' = tasks
       ELSE IF fetched = "notok"
       THEN req' = Respond(r0, ErrorResp(status)) /\ tasks' = tasks
       ELSE IF fetched = "badbody"   \* await res.arrayBuffer() throws
       THEN req' = Respond(r0, ErrorResp(500)) /\ tasks' = tasks
       ELSE IF trusted
       THEN req' = Respond(r, BytesResp) /\ tasks' = tasks
       ELSE /\ req' = Call([r EXCEPT !.pc = "log"], "log_insert")
            /\ tasks' = Spawn(LogTask("cfile_old_GET", url, TRUE))
  /\ UNCHANGED <<env, imginfo, tgimglog, nreq, hist>>

\* INSERT INTO tgimglog runs, or fails and is swallowed (insertViewLog, insertTgImgLog)
insertViewLog(t, storeOk) ==
  IF storeOk THEN Append(tgimglog, [url |-> t.url]) ELSE tgimglog

Task_LogInsert(t) ==
  /\ t.kind = "log_insert"
  /\ \E storeOk \in BOOLEAN : tgimglog' = insertViewLog(t, storeOk)
  /\ tasks' = Settle(t)
  \* part_000:329: the older variant goes on to its rating SELECT
  /\ req' = IF t.awaited THEN Call([req EXCEPT !.pc = "select"], "rating_select") ELSE req
  /\ UNCHANGED <<env, imginfo, nreq, hist>>

\* SELECT rating FROM imginfo WHERE url = ? ... first(): the first matching row, if any
Matching(url) == {k \in 1..Len(imginfo) : imginfo[k].url = url}
FirstMatch(url) == CHOOSE k \in Matching(url) : \A j \in Matching(url) : k <= j

\* faulty variant: the UPDATE has lost its WHERE clause
incrementTotal_everyRow(url, storeOk) ==
  IF storeOk
  THEN [k \in 1..Len(imginfo) |-> [imginfo[k] EXCEPT !.total = @ + 1]]
  ELSE imginfo

\* UPDATE imginfo SET total = total + 1 WHERE url = ?
incrementTotal(url, storeOk) ==
  IF storeOk
  THEN [k \in 1..Len(imginfo) |->
          IF imginfo[k].url = url THEN [imginfo[k] EXCEPT !.total = @ + 1] ELSE imginfo[k]]
  ELSE imginfo

\* the history with one more event
Record(event, url) == hist (+) SetToBag({[event |-> event, url |-> url]})

Task_TotalUpdate(t) ==
  /\ t.kind = "total_update"
  /\ \E storeOk \in BOOLEAN :
       /\ imginfo' = incrementTotal(t.url, storeOk)
       /\ hist' = IF storeOk THEN hist ELSE Record("failed", t.url)
  /\ tasks' = Settle(t)
  /\ UNCHANGED <<env, tgimglog, req, nreq>>

\* faulty variant: the UPDATE is handed to waitUntil without testing the result
getRatingFromDb_always(url, storeOk) ==
  IF ~storeOk THEN [lookup |-> "error", rating |-> 0, update |-> FALSE]
  ELSE IF {k \in 1..Len(imginfo) : imginfo[k].url = url} = {}
  THEN [lookup |-> "null", rating |-> 0, update |-> TRUE]
  ELSE [lookup |-> "found", update |-> TRUE,
        rating |-> imginfo[CHOOSE k \in 1..Len(imginfo) :
                             /\ imginfo[k].url = url
                             /\ \A j \in 1..(k - 1) : imginfo[j].url # url].rating]

\* part_000:210-222: what getRatingFromDb returns -- "found" with the rating, "null"
\* (no row), "error" (the store throws, caught: null) -- and whether it handed the
\* UPDATE of total to waitUntil
getRatingFromDb(url, storeOk) ==
  IF ~storeOk THEN [lookup |-> "error", rating |-> 0, update |-> FALSE]
  ELSE IF Matching(url) = {} THEN [lookup |-> "null", rating |-> 0, update |-> FALSE]
  ELSE [lookup |-> "found", rating |-> imginfo[FirstMatch(url)].rating, update |-> TRUE]

\* part_000:433-442: the older getRating only reads
getRating_old(url, storeOk) ==
  IF ~storeOk THEN [lookup |-> "error", rating |-> 0]
  ELSE IF Matching(url) = {} THEN [lookup |-> "null", rating |-> 0]
  ELSE [lookup |-> "found", rating |-> imginfo[FirstMatch(url)].rating]

\* faulty variant: blocks only above the sentinel
cfileResponse_above(found, rating) ==
  IF found /\ rating > BlockedRating THEN RedirectResp ELSE BytesResp

\* the serve-or-block decision of part_000:77-83
cfileResponse(found, rating) ==
  IF found /\ rating = BlockedRating THEN RedirectResp ELSE BytesResp

\* the decision of part_000:331-358: no record, no file
cfileOldResponse(found, rating) ==
  IF found
  THEN IF rating = BlockedRating THEN RedirectResp ELSE BytesResp
  ELSE ErrorResp(404)

\* getRatingFromDb (part_000:210-222) and part_000:76-83
GET_cfile_SelectReply ==
  /\ req.pc = "select" /\ req.handler = "cfile_GET"
  /\ \E storeOk \in BOOLEAN :
       LET url == urlPath("cfile_GET", req.name)
           got == getRatingFromDb(url, storeOk)
           found == got.lookup = "found"
           r == [req EXCEPT !.lookup = got.lookup, !.ratingInfo = got.rating] IN
       /\ tasks' = IF got.update THEN Spawn(UpdateTask("cfile_GET", url)) ELSE tasks
       /\ req' = Respond(IF got.update THEN Call(r, "total_update") ELSE r,
                         cfileResponse(found, got.rating))
       /\ hist' = IF found THEN Record("found", url) ELSE hist
  /\ UNCHANGED <<env, imginfo, tgimglog, nreq>>

\* getRating (part_000:433-442) and part_000:329-358
GET_cfile_old_SelectReply ==
  /\ req.pc = "select" /\ req.handler = "cfile_old_GET"
  /\ \E storeOk \in BOOLEAN :
       LET url == urlPath("cfile_old_GET", req.name)
           got == getRating_old(url, storeOk)
           found == got.lookup = "found"
           r == [req EXCEPT !.lookup = got.lookup, !.ratingInfo = got.rating] IN
       /\ tasks' = IF found THEN Spawn(UpdateTask("cfile_old_GET", url)) ELSE tasks
       /\ req' = Respond(IF found THEN Call(r, "total_update") ELSE r,
                         cfileOldResponse(found, got.rating))
       /\ hist' = IF found THEN Record("found", url) ELSE hist
  /\ UNCHANGED <<env, imginfo, tgimglog, nreq>>

Next ==
  \/ \E h \in PostHandlers : POST_Receive(h)
  \/ \E h \in PostHandlers : POST_SendReply(h)
  \/ POST_tgchannel_Receive
  \/ POST_tgchannel_SendReply
  \/ \E t \in Pending : Bookkeeping_FileReply(t)
  \/ \E t \in Pending : Bookkeeping_RatingReply(t)
  \/ \E t \in Pending : Bookkeeping_Insert(t)
  \/ \E h \in GetHandlers : GET_Receive(h)
  \/ \E h \in GetHandlers : GET_FileReply(h)
  \/ GET_cfile_FetchReply
  \/ GET_cfile_old_FetchReply
  \/ GET_cfile_SelectReply
  \/ GET_cfile_old_SelectReply
  \/ \E t \in Pending : Task_LogInsert(t)
  \/ \E t \in Pending : Task_TotalUpdate(t)

Spec == Init /\ [][Next]_vars

\* ------------------------------------------ extraction alone, on every reply shape
\* extractFileData (part_000, part_001) or getFile (route.js) applied to a parsed reply
Extract ==
  /\ req.pc = "idle"
  /\ \E h \in PostHandlers, e \in Endpoints :
    \E reply \in {r \in Replies(ResultsFor(e)) : r.json} :
      /\ req' = [IdleReq EXCEPT !.handler = h, !.pc = "extracted", !.endpoint = e,
                                !.tg = reply,
                                !.fileData = IF h = "tgchannel_POST" THEN getFile(reply)
                                             ELSE extractFileData(reply)]
      /\ UNCHANGED <<env, imginfo, tgimglog, tasks, nreq, hist>>

SpecExtract == Init /\ [][Extract]_vars

\* ------------------------------ retrievals of a file whose record is in the store
\* the store outlives the worker: a worker that has handled no request yet finds the
\* record an earlier upload's bookkeeping has left (url as written by part_000:153 or
\* part_001:214, a rating that does not block, total 1)
StoredRecords ==
  { [url |-> imginfoUrl(h, MediaId), rating |-> 1, total |-> InitialTotal]
      : h \in PostHandlers }

InitCount ==
  /\ env \in {e \in [IMG : BOOLEAN, RATINGAPI : BOOLEAN, ModerateContentApiKey : BOOLEAN] :
               e.IMG /\ e.RATINGAPI /\ ~e.ModerateContentApiKey}
  /\ \E record \in StoredRecords : imginfo = <<record>>
  /\ tgimglog = <<>>
  /\ tasks = EmptyBag
  /\ req = IdleReq
  /\ nreq = 0
  /\ hist = EmptyBag

SpecCount == InitCount /\ [][Next]_vars

\* ========================================================================= claims
Count(calls, name) == Cardinality({k \in 1..Len(calls) : calls[k] = name})
Issued(name) == Count(req.calls, name) > 0

\* the allow-list of each retrieval variant, spelled out over Referers
AllowList(h) ==
  IF h = "cfile_GET"
  THEN { <<"origin", "/admin">>, <<"origin", "/admin", "/users">>, <<"origin", "/list">> }
  ELSE { <<"origin", "/admin">>, <<"origin", "/list">>, <<"origin", "/">> }

\* a retrieval that resolved its path and fetched the bytes
Fetched == req.handler \in GetHandlers /\ req.file_path = "path" /\ req.fetched = "ok"

C1_Case ==
  /\ Fetched /\ req.pc = "done"
  /\ req.referer \notin AllowList(req.handler) /\ env.IMG
  /\ req.lookup = "found" /\ req.ratingInfo = BlockedRating

\* C1: in both retrieval variants, a retrieval that resolved its path, fetched the bytes,
\* has an untrusted Referer and a configured store, and whose rating lookup returned a
\* record with rating 3, ends with a 302 to <origin>/img/blocked.png, never with bytes.
C1_BlockedRatingRedirects ==
  C1_Case => /\ req.resp.status = 302
             /\ req.resp.location = <<"origin", "/img/blocked.png">>
             /\ req.resp.body # "bytes"

C1_Witness == C1_Case /\ req.resp.status = 302 /\ req.handler = "cfile_GET"

C2_Case ==
  /\ Fetched /\ req.pc = "done"
  /\ (req.referer \in AllowList(req.handler) \/ ~env.IMG)

\* C2: a retrieval that resolved its path and fetched the bytes, and whose Referer is on
\* the allow-list or that runs without a store, answers 200 with the bytes and issues no
\* access-log insert, no rating lookup and no counter increment.
C2_TrustedServesWithoutStore ==
  C2_Case => /\ req.resp.status = 200 /\ req.resp.body = "bytes"
             /\ ~Issued("log_insert") /\ ~Issued("rating_select") /\ ~Issued("total_update")
             /\ req.lookup = "none"

\* ... even when the store holds a record with rating 3 for that very path
C2_Witness ==
  /\ C2_Case /\ env.IMG /\ req.resp.status = 200
  /\ \E k \in 1..Len(imginfo) :
       /\ imginfo[k].url = urlPath(req.handler, req.name)
       /\ imginfo[k].rating = BlockedRating

\* C3: in every upload variant, a POST without a `file` field, or whose `file` field is
\* not a file, is answered 4xx and no outbound call is made.
C3_NoFileIsClientError ==
  (req.handler \in PostHandlers /\ req.file \in {"missing", "string"})
    => /\ req.pc = "done"
       /\ req.resp.status \in 400..499
       /\ req.calls = <<"respond">>

\* the backend's reply to the upload was parsed and reports a failure
C4_Case ==
  /\ req.handler \in PostHandlers /\ req.pc \in {"done", "crashed", "bookkeeping"}
  /\ req.tg.fetch = "done" /\ req.tg.json
  /\ (~req.tg.httpOk \/ ~req.tg.ok)

\* C4: in every upload variant, a backend reply with a non-success status or ok:false is
\* answered 502 with the backend's reply, never 200, without running extraction and
\* without any bookkeeping.
C4_BackendFailureIsBadGateway ==
  C4_Case => /\ req.pc = "done"
             /\ req.resp.status = 502
             /\ req.resp.raw = req.tg
             /\ ~Issued("extract")
             /\ ~Issued("getFile") /\ ~Issued("rating_api") /\ ~Issued("imginfo_insert")

\* ---- extraction (SpecExtract)
Sized(photo) == \A i \in 1..Len(photo) : photo[i].file_size # NoSize
StrictlyLargest(photo, k) ==
  \A j \in 1..Len(photo) : j # k => photo[k].file_size > photo[j].file_size
\* the entries whose file_size no other exceeds
Largest(photo) ==
  {k \in 1..Len(photo) : \A j \in 1..Len(photo) : photo[k].file_size >= photo[j].file_size}
Lowest(S) == CHOOSE k \in S : \A j \in S : k <= j
Highest(S) == CHOOSE k \in S : \A j \in S : k >= j
Sizes(photo) == [i \in 1..Len(photo) |-> photo[i].file_size]

ExtractedPhoto ==
  /\ req.pc = "extracted" /\ req.tg.ok /\ req.tg.result.hasPhoto
  /\ Len(req.tg.result.photo) > 0 /\ Sized(req.tg.result.photo)

\* C5: for a successful photo reply with a non-empty list (every entry carrying a
\* file_size) in which one entry is strictly larger than all others, extraction returns
\* that entry's file_id, with its file_unique_id as name, wherever the entry stands.
C5_StrictlyLargestIsExtracted ==
  ExtractedPhoto =>
    \A k \in 1..Len(req.tg.result.photo) :
      StrictlyLargest(req.tg.result.photo, k) =>
        req.fileData = FileData(req.tg.result.photo[k].file_id,
                                req.tg.result.photo[k].file_unique_id)

\* sizes {1000, 5000, 3000}, scaled: the middle entry is extracted
C5_Witness ==
  /\ ExtractedPhoto /\ Sizes(req.tg.result.photo) = <<1, 3, 2>>
  /\ req.fileData.file_id = <<"photo", 2>>

C6_Case == ExtractedPhoto /\ Cardinality(Largest(req.tg.result.photo)) >= 2

\* C6 (as claimed): when two or more entries tie for the largest file_size, the first of
\* the tied entries, in list order, is selected.
C6_FirstOfTieIsExtracted ==
  C6_Case => req.fileData.file_id =
               req.tg.result.photo[Lowest(Largest(req.tg.result.photo))].file_id

\* C6 (amended): when two or more entries tie for the largest file_size, the last of the
\* tied entries, in list order, is selected.
C6_LastOfTieIsExtracted ==
  C6_Case => req.fileData.file_id =
               req.tg.result.photo[Highest(Largest(req.tg.result.photo))].file_id

C6_Witness ==
  /\ C6_Case /\ Sizes(req.tg.result.photo) = <<3, 1, 3>>
  /\ req.fileData.file_id = <<"photo", 3>>

\* C7: in every upload variant, once the upload succeeded and a file identity was
\* extracted, the answer is 200 {url, code, name}, given without waiting for a
\* bookkeeping step: no rating call and no imginfo insert precedes it.
C7_AnswersBeforeBookkeeping ==
  (req.handler \in PostHandlers /\ req.pc = "done" /\ req.fileData.tag = "data")
    => /\ req.resp = UploadResp(req.fileData)
       /\ ~Issued("rating_api") /\ ~Issued("imginfo_insert")

\* C8: every request ends with a response; no exception leaves a handler.
C8_NoExceptionEscapes == req.pc # "crashed"

C9_Case == req.handler \in GetHandlers /\ req.pc = "done" /\ req.lookup = "found"

\* C9: a retrieval issues the UPDATE of total at most once, and only when its lookup
\* returned a record; its response (302 for rating 3, the bytes otherwise) stays what
\* it is while the UPDATE is pending, after it succeeded and after it failed.
C9_OneIncrementNoEffectOnResponse ==
  req.handler \in GetHandlers =>
    /\ Count(req.calls, "total_update") <= 1
    /\ Issued("total_update") => req.lookup = "found"
    /\ C9_Case => req.resp = IF req.ratingInfo = BlockedRating THEN RedirectResp ELSE BytesResp

\* the UPDATE was issued and failed: no task is left and total is what the insert wrote
C9_Witness ==
  /\ C9_Case /\ Issued("total_update") /\ req.resp.status = 302
  /\ \A t \in Pending : t.kind # "total_update"
  /\ \A k \in 1..Len(imginfo) : imginfo[k].total = InitialTotal

C10_Case ==
  req.handler \in GetHandlers /\ req.file_path \in {"throw", "notok", "nopath"}

\* C10: when the path of the requested identifier cannot be resolved (the fetch throws,
\* the backend answers ok:false, or the answer has no file_path), the retrieval answers
\* 502 or 500 with an error body and stops: no download, no access-log insert, no rating
\* lookup, no counter increment.
C10_UnresolvedPathStops ==
  C10_Case => /\ req.pc = "done"
              /\ req.resp.status \in {500, 502} /\ req.resp.body = "error"
              /\ req.calls = <<"getFile", "respond">>
              /\ req.fetched = "none" /\ req.lookup = "none"

C10_Witness == C10_Case /\ req.file_path = "nopath" /\ req.resp.status = 502

\* ---- the rating table
OneRecordPerUrl(table) ==
  \A j, k \in 1..Len(table) : table[j].url = table[k].url => j = k
\* the step is the INSERT that ends an upload's bookkeeping
BookkeepingInsertStep ==
  \E t \in Pending : t.kind = "bookkeeping" /\ t.pc = "insert" /\ tasks' = Settle(t)

\* C11: after any sequence of uploads and retrievals (repeated uploads of one file_id
\* included) imginfo holds at most one record per url, and a record is only ever added by
\* an upload's bookkeeping: no step of a retrieval adds one, a retrieval only increments
\* total of the records that exist.
C11_OneRecordPerUrl ==
  [][ /\ OneRecordPerUrl(imginfo')
      /\ Len(imginfo') > Len(imginfo) => BookkeepingInsertStep
      /\ Len(imginfo') >= Len(imginfo)
      /\ \A k \in 1..Len(imginfo) : /\ imginfo'[k].url = imginfo[k].url
                                    /\ imginfo'[k].rating = imginfo[k].rating ]_vars

\* the keys under which the upload variants record file f
UploadKeys(f) == {imginfoUrl(h, f) : h \in PostHandlers}
\* the step in which a retrieval's rating SELECT is answered by the store
SelectAnswered ==
  /\ req.handler \in GetHandlers /\ req.pc = "select"
  /\ req'.pc = "done" /\ req'.lookup # "error"

\* C12: whichever upload variant recorded file f and whichever retrieval variant looks f
\* up, the key written is the key read: when the bookkeeping of an upload rated 3 has
\* inserted its record, the rating SELECT of an untrusted retrieval of f finds that record
\* (and the retrieval is answered with the redirect).
C12_UploadKeyIsRetrievalKey ==
  [][ ( /\ SelectAnswered
        /\ \E k \in 1..Len(imginfo) : /\ imginfo[k].url \in UploadKeys(req.name)
                                      /\ imginfo[k].rating = BlockedRating
        /\ \A k \in 1..Len(imginfo) : imginfo[k].url \in UploadKeys(req.name)
                                        => imginfo[k].rating = BlockedRating )
      => (req'.lookup = "found" /\ req'.resp = RedirectResp) ]_vars

\* the ratings an upload's bookkeeping has computed or stored: those of the tasks that
\* reached their INSERT and those of the rows
ComputedRatings ==
  {t.rating : t \in {u \in Pending : u.kind = "bookkeeping" /\ u.pc = "insert"}}
  \cup {imginfo[k].rating : k \in 1..Len(imginfo)}

\* C13: when neither a moderation API key nor a rating API base URL is configured, the
\* rating an upload's bookkeeping computes and stores is 0, in every upload variant and
\* whether or not the file's path could be resolved again; -1 is computed only when a
\* rating service is configured.
C13_NoRatingServiceStoresZero ==
  /\ ~ratingApi => ComputedRatings \subseteq {RatingNone}
  /\ RatingFailed \in ComputedRatings => ratingApi

\* ---- the access log
C14_Case == Fetched /\ req.referer \notin AllowList(req.handler) /\ env.IMG
\* call `first` is in the list, and before every call `second`
Precedes(calls, first, second) ==
  \A i \in 1..Len(calls) : calls[i] = second => \E j \in 1..(i - 1) : calls[j] = first
\* access-log inserts that are scheduled and have not run yet
PendingLogInserts ==
  BagCardinality([t \in {u \in Pending : u.kind = "log_insert"} |-> tasks[t]])
OneLogInsert ==
  /\ C14_Case => /\ Count(req.calls, "log_insert") = 1
                 /\ Precedes(req.calls, "log_insert", "rating_select")
                 /\ Precedes(req.calls, "log_insert", "respond")
                 /\ req.pc = "done" => /\ Issued("rating_select")
                                       /\ req.lookup \in {"found", "null", "error"}
  /\ Len(tgimglog) + PendingLogInserts <= nreq
AppendOnly(old, new) ==
  /\ Len(new) >= Len(old)
  /\ \A k \in 1..Len(old) : new[k] = old[k]

\* C14 (as claimed): every retrieval with an untrusted Referer and a configured store
\* issues exactly one access-log insert.
C14_EveryUntrustedRetrievalLogs ==
  ( /\ req.handler \in GetHandlers /\ req.pc = "done"
    /\ req.referer \notin AllowList(req.handler) /\ env.IMG )
    => Count(req.calls, "log_insert") = 1

\* C14 (amended): a retrieval with an untrusted Referer and a configured store that resolved its
\* path and fetched the bytes issues exactly one access-log insert, before its rating
\* lookup and whatever the lookup returns (a rating-3 record, another record, no record,
\* a store error); no request adds more than one row to tgimglog, and the rows of
\* tgimglog are never changed or removed.
C14_OneLogInsertBeforeLookup ==
  [][OneLogInsert' /\ AppendOnly(tgimglog, tgimglog')]_vars

\* the older variant answered "no record", and the row of that retrieval is in the log
C14_Witness ==
  /\ C14_Case /\ req.pc = "done" /\ req.handler = "cfile_old_GET"
  /\ req.lookup = "null" /\ req.resp.status = 404
  /\ req.calls = <<"getFile", "fetchBytes", "log_insert", "rating_select", "respond">>
  /\ tgimglog = <<[url |-> urlPath(req.handler, req.name)]>>

\* ---- extraction of a document, video or audio (SpecExtract)
\* the media objects of a result that has no photo
MediaOf(result) ==
  {m \in {result.document, result.video, result.audio} : m # NoMedia}
C15_Case ==
  /\ req.pc = "extracted" /\ req.tg.ok /\ ~req.tg.result.hasPhoto
  /\ Cardinality(MediaOf(req.tg.result)) = 1

\* C15: in every upload variant, when the backend's successful reply carries no photo but
\* a single document, video or audio object, extraction succeeds and returns that
\* object's file_id, with its file_name as name when it has one and its file_unique_id
\* otherwise; an audio-only result is not an extraction failure.
C15_SingleMediaIsExtracted ==
  C15_Case => \A m \in MediaOf(req.tg.result) :
                req.fileData = FileData(m.file_id, OrElse(m.file_name, m.file_unique_id))

\* ---- the hit counter (SpecCount)
Hits(event, url) == CopiesIn([event |-> event, url |-> url], hist)
\* UPDATEs of total for url that are scheduled and have not run yet
PendingUpdates(url) ==
  BagCardinality([t \in {u \in Pending : u.kind = "total_update" /\ u.url = url} |-> tasks[t]])
\* total of the record the rating SELECT of url returns: 1, plus one for every SELECT
\* that returned it, less the UPDATEs that have not run yet or have failed
TotalCounts ==
  \A k \in 1..Len(imginfo) :
    k = FirstMatch(imginfo[k].url) =>
      imginfo[k].total = InitialTotal + Hits("found", imginfo[k].url)
                           - PendingUpdates(imginfo[k].url) - Hits("failed", imginfo[k].url)

\* C16: a record is created with total = 1; under every interleaving of the deferred
\* UPDATEs of untrusted retrievals of one url, the total of the record their lookups
\* return is 1 plus the number of lookups that found it once every UPDATE has run
\* successfully (each pending or failed UPDATE accounts for exactly one missing
\* increment, so none is lost); total never decreases; a retrieval on the trusted path,
\* which looks nothing up, leaves it unchanged.
C16_TotalCountsFoundRetrievals ==
  [][ /\ TotalCounts'
      /\ Len(imginfo') > Len(imginfo) => imginfo'[Len(imginfo')].total = InitialTotal
      /\ \A k \in 1..Len(imginfo) : imginfo'[k].total >= imginfo[k].total ]_vars

\* two untrusted retrievals of the url found the record, both UPDATEs have run
C16_Witness ==
  /\ Len(imginfo) = 1 /\ imginfo[1].total = InitialTotal + 2
  /\ Hits("found", imginfo[1].url) = 2 /\ Hits("failed", imginfo[1].url) = 0
  /\ tasks = EmptyBag

\* ---- a blocked file and the requests that follow its upload
\* file f was uploaded through part_000's POST, whose handler has returned, and the rating
\* service scores it 3: the bookkeeping holds that answer for its INSERT, or has stored it
ScoredBlocked(f) ==
  \/ \E t \in Pending : /\ t.kind = "bookkeeping" /\ t.handler = "cfile_POST" /\ ~t.awaited
                        /\ t.file_id = f /\ t.pc = "insert" /\ t.rating = BlockedRating
  \/ \E k \in 1..Len(imginfo) : /\ imginfo[k].url = imginfoUrl("cfile_POST", f)
                                /\ imginfo[k].rating = BlockedRating
C17_Case ==
  /\ req.handler \in GetHandlers /\ req.pc = "done"
  /\ req.referer \notin AllowList(req.handler) /\ env.IMG
  /\ ScoredBlocked(req.name)

\* C17: with a store configured, for a file the rating service scores 3, and under every
\* interleaving of the upload's deferred bookkeeping with the requests that follow, no
\* untrusted retrieval received after the upload handler has returned the file's url is
\* answered 200 with the file's bytes.
C17_BlockedFileIsNeverServed ==
  C17_Case => ~(req.resp.status = 200 /\ req.resp.body = "bytes")

====
